---- MODULE Spec2Model ----
(***************************************************************************)
(* Thread-owning handles of "C++ Concurrency in Action", chapter 2:        *)
(* std::thread objects, thread_guard, scoped_thread and joining_thread,    *)
(* driven by one calling thread, with the launched tasks running           *)
(* concurrently.  A std::thread object is modelled by the task it is       *)
(* attached to (NoTask when it is not joinable).                           *)
(***************************************************************************)
EXTENDS Integers, FiniteSets, Sequences, TLC

\* Bounds of the model.
MaxTasks == 2
NumJT == 2
NumRaw == 1
NumGuard == 2
NumScoped == 1
LoopBound == 2

\* t1, t2 and t3: the std::thread objects of the ownership-transfer example.
NumT == 3
\* "i < 20": the number of threads that f of listing 2.8 spawns.
SpawnCount == 20

\* The state of a std::thread that is attached to no thread of execution.
NoTask == 0

Tasks == 1..MaxTasks
JT == 1..NumJT
Raw == 1..NumRaw
\* Every std::thread object: those of the caller, t1..t3, and the elements of
\* the vector of listing 2.8.
RawAll == 1..(IF NumRaw > NumT THEN NumRaw ELSE NumT)
Guard == 1..NumGuard
Scoped == 1..NumScoped
Thread == Tasks \cup {NoTask}

VARIABLES
    run,        \* run[k]: "none" (not launched), "running", "done"
    joins,      \* joins[k]: how many times task k has been joined (capped)
    detaches,   \* detaches[k]: how many times task k has been detached (capped)
    raw,        \* raw[r]: the std::thread object r of the caller
    jt,         \* jt[h]: member t of joining_thread h
    jst,        \* jst[h]: "none" (not constructed), "alive", "dead" (destroyed)
    param,      \* the by-value std::thread parameter of the call in progress
    pc,         \* where the calling thread is: "idle" or inside a call
    cur,        \* the call in progress: <<this, source, the task *this held on entry>>
    err,        \* how the last completed call ended: "ok" or the exception thrown
    terminated, \* std::terminate has been called
    gref,       \* gref[g]: the std::thread object thread_guard g refers to
    gst,        \* gst[g]: "none", "alive", "dead"
    sc,         \* sc[s]: member t of scoped_thread s
    sst,        \* sst[s]: "none", "alive", "dead"
    prog,       \* the function being run: "none", "f_guard", "f_scoped"
    fpc,        \* the statement of that function the caller is at
    local,      \* local[k]: the some_local_state that the func of task k refers
                \* to: "none", "alive", "destroyed"
    iter,       \* iter[k]: j, the loop iterations func::operator() of task k has done
    dangling,   \* func has accessed some_local_state after its destruction
    exc,        \* do_something_in_current_thread() has thrown
    i,          \* the loop variable i of f (listing 2.8)
    entry       \* the position of the range-for over the vector, 0 outside it

gvars == <<gref, gst, sc, sst>>
lvars == <<i, entry>>
fvars == <<prog, fpc, local, iter, dangling, exc, lvars>>
vars == <<run, joins, detaches, raw, jt, jst, param, pc, cur, err, terminated, gvars, fvars>>

NoCall == <<0, 0, 0>>

Init ==
    /\ run = [k \in Tasks |-> "none"]
    /\ joins = [k \in Tasks |-> 0]
    /\ detaches = [k \in Tasks |-> 0]
    /\ raw = [r \in RawAll |-> NoTask]
    /\ jt = [h \in JT |-> NoTask]
    /\ jst = [h \in JT |-> "none"]
    /\ param = NoTask
    /\ pc = "idle"
    /\ cur = NoCall
    /\ err = "ok"
    /\ terminated = FALSE
    /\ gref = [g \in Guard |-> 1]
    /\ gst = [g \in Guard |-> "none"]
    /\ sc = [s \in Scoped |-> NoTask]
    /\ sst = [s \in Scoped |-> "none"]
    /\ prog = "none"
    /\ fpc = "start"
    /\ local = [k \in Tasks |-> "none"]
    /\ iter = [k \in Tasks |-> 0]
    /\ dangling = FALSE
    /\ exc = FALSE
    /\ i = 0
    /\ entry = 0

----------------------------------------------------------------------------
\* std::thread, as the snippets use it.

\* Faulty variant: joinable() that answers true for an empty std::thread.
JoinableAlways(t) == TRUE

\* std::thread::joinable()
Joinable(t) == t # NoTask

\* Faulty variants of the definitions below, used to show that the properties
\* depend on them.
DetachNeverThrows(t) == FALSE
CompletedAlways(t) == TRUE
ReleasedKeeps(t) == t
DetachedKeeps(t) == t
MovedFromKeeps(t) == t

\* std::thread::join() and detach() throw std::system_error (invalid_argument)
\* when the object is not joinable.
JoinThrows(t) == ~Joinable(t)
DetachThrows(t) == ~Joinable(t)

\* The state std::thread::join() leaves the object in.
Released(t) == NoTask

\* The state std::thread::detach() leaves the object in.
Detached(t) == NoTask

\* The state of a std::thread that has been moved from.
MovedFrom(t) == NoTask

\* std::thread::join() blocks until the thread of execution has completed.
Completed(t) == run[t] = "done"

\* A counter of resolutions, capped so that it stays bounded.
Bump(n) == IF n < 2 THEN n + 1 ELSE n

\* std::thread::operator=(std::thread&&) calls std::terminate() when the
\* destination is joinable.
MoveAssignTerminates(dst) == Joinable(dst)

\* ~thread() calls std::terminate() when the object is still joinable.
ThreadDtorTerminates(t) == Joinable(t)

\* The task a newly constructed std::thread(callable, args...) starts.
Fresh == {k \in Tasks : run[k] = "none"}
NewTask == CHOOSE k \in Fresh : \A j \in Fresh : k <= j

Caller == pc = "idle" /\ ~terminated

\* A launched task runs to completion on its own thread of execution.
TaskFinish(k) ==
    /\ ~terminated
    /\ run[k] = "running"
    /\ run' = [run EXCEPT ![k] = "done"]
    /\ UNCHANGED <<joins, detaches, raw, jt, jst, param, pc, cur, err, terminated, gvars>>

\* raw[r] = std::thread(some_function): a temporary is launched and
\* move-assigned to an existing std::thread object.
RawLaunch(r) ==
    /\ Caller
    /\ Fresh # {}
    /\ run' = [run EXCEPT ![NewTask] = "running"]
    /\ IF MoveAssignTerminates(raw[r])
         THEN /\ terminated' = TRUE
              /\ UNCHANGED <<raw, err>>
         ELSE /\ raw' = [raw EXCEPT ![r] = NewTask]
              /\ err' = "ok"
              /\ UNCHANGED terminated
    /\ UNCHANGED <<joins, detaches, jt, jst, param, pc, cur, gvars>>

\* raw[d] = std::move(raw[s])
RawMoveAssign(d, s) ==
    /\ Caller
    /\ IF MoveAssignTerminates(raw[d])
         THEN /\ terminated' = TRUE
              /\ UNCHANGED <<raw, err>>
         ELSE /\ raw' = [raw EXCEPT ![d] = raw[s], ![s] = IF s = d THEN raw[s] ELSE MovedFrom(raw[s])]
              /\ err' = "ok"
              /\ UNCHANGED terminated
    /\ UNCHANGED <<run, joins, detaches, jt, jst, param, pc, cur, gvars>>

\* raw[r].join(): throws std::system_error when not joinable, else blocks.
RawJoin(r) ==
    /\ Caller
    /\ IF ~JoinThrows(raw[r])
         THEN /\ pc' = "raw_join"
              /\ cur' = <<r, 0, raw[r]>>
              /\ UNCHANGED err
         ELSE /\ err' = "system_error"
              /\ UNCHANGED <<pc, cur>>
    /\ UNCHANGED <<run, joins, detaches, raw, jt, jst, param, terminated, gvars>>

RawJoinReturn ==
    /\ pc = "raw_join" /\ ~terminated
    /\ Completed(raw[cur[1]])
    /\ joins' = [joins EXCEPT ![raw[cur[1]]] = Bump(@)]
    /\ raw' = [raw EXCEPT ![cur[1]] = Released(@)]
    /\ pc' = "idle"
    /\ cur' = NoCall
    /\ err' = "ok"
    /\ UNCHANGED <<run, detaches, jt, jst, param, terminated, gvars>>

\* raw[r].detach(): throws std::system_error when not joinable.
RawDetach(r) ==
    /\ Caller
    /\ IF ~DetachThrows(raw[r])
         THEN /\ detaches' = [detaches EXCEPT ![raw[r]] = Bump(@)]
              /\ raw' = [raw EXCEPT ![r] = Detached(@)]
              /\ err' = "ok"
         ELSE /\ err' = "system_error"
              /\ UNCHANGED <<detaches, raw>>
    /\ UNCHANGED <<run, joins, jt, jst, param, pc, cur, terminated, gvars>>

----------------------------------------------------------------------------
\* joining_thread (listing 2.7).

\* joining_thread::joinable()
joinable(h) == Joinable(jt[h])

\* joining_thread() noexcept = default
JTDefault(h) ==
    /\ Caller
    /\ jst[h] = "none"
    /\ jst' = [jst EXCEPT ![h] = "alive"]
    /\ jt' = [jt EXCEPT ![h] = NoTask]
    /\ err' = "ok"
    /\ UNCHANGED <<run, joins, detaches, raw, param, pc, cur, terminated, gvars>>

\* joining_thread(Callable&& func, Args&&... args)
JTLaunch(h) ==
    /\ Caller
    /\ jst[h] = "none"
    /\ Fresh # {}
    /\ run' = [run EXCEPT ![NewTask] = "running"]
    /\ jst' = [jst EXCEPT ![h] = "alive"]
    /\ jt' = [jt EXCEPT ![h] = NewTask]
    /\ err' = "ok"
    /\ UNCHANGED <<joins, detaches, raw, param, pc, cur, terminated, gvars>>

\* joining_thread(std::thread t_), called with std::move(raw[r])
JTFromThread(h, r) ==
    /\ Caller
    /\ jst[h] = "none"
    /\ jst' = [jst EXCEPT ![h] = "alive"]
    /\ jt' = [jt EXCEPT ![h] = raw[r]]
    /\ raw' = [raw EXCEPT ![r] = MovedFrom(@)]
    /\ err' = "ok"
    /\ UNCHANGED <<run, joins, detaches, param, pc, cur, terminated, gvars>>

\* joining_thread(joining_thread&& other)
JTMoveCtor(h, o) ==
    /\ Caller
    /\ jst[h] = "none" /\ jst[o] = "alive"
    /\ jst' = [jst EXCEPT ![h] = "alive"]
    /\ jt' = [jt EXCEPT ![h] = jt[o], ![o] = MovedFrom(@)]
    /\ err' = "ok"
    /\ UNCHANGED <<run, joins, detaches, raw, param, pc, cur, terminated, gvars>>

\* Faulty variant: the assignment operators without "if (joinable()) join();".
AfterJoinCheckSkips(h, joining, moving) == moving

\* The position after "if (joinable()) join();" of both assignment operators.
AfterJoinCheck(h, joining, moving) == IF joinable(h) THEN joining ELSE moving

\* operator=(joining_thread&& other): the call, up to the blocking join
JTMoveAssign(h, o) ==
    /\ Caller
    /\ jst[h] = "alive" /\ jst[o] = "alive"
    /\ pc' = AfterJoinCheck(h, "ma_join", "ma_move")
    /\ cur' = <<h, o, jt[h]>>
    /\ UNCHANGED <<run, joins, detaches, raw, jt, jst, param, err, terminated, gvars>>

\* operator=(joining_thread&& other): join() returns
JTMoveAssignJoined ==
    /\ pc = "ma_join" /\ ~terminated
    /\ Completed(jt[cur[1]])
    /\ joins' = [joins EXCEPT ![jt[cur[1]]] = Bump(@)]
    /\ jt' = [jt EXCEPT ![cur[1]] = Released(@)]
    /\ pc' = "ma_move"
    /\ UNCHANGED <<run, detaches, raw, jst, param, cur, err, terminated, gvars>>

\* operator=(joining_thread&& other): t = std::move(other.t); return *this
JTMoveAssignMove ==
    /\ pc = "ma_move" /\ ~terminated
    /\ pc' = "idle"
    /\ cur' = NoCall
    /\ IF MoveAssignTerminates(jt[cur[1]])
         THEN /\ terminated' = TRUE
              /\ UNCHANGED <<jt, err>>
         ELSE /\ jt' = [jt EXCEPT ![cur[1]] = jt[cur[2]],
                                  ![cur[2]] = IF cur[2] = cur[1] THEN jt[cur[2]] ELSE MovedFrom(@)]
              /\ err' = "ok"
              /\ UNCHANGED terminated
    /\ UNCHANGED <<run, joins, detaches, raw, jst, param, gvars>>

\* operator=(std::thread other), called with std::move(raw[r]): the
\* parameter is move-constructed from raw[r] before the body runs
JTAssignThread(h, r) ==
    /\ Caller
    /\ jst[h] = "alive"
    /\ param' = raw[r]
    /\ raw' = [raw EXCEPT ![r] = MovedFrom(@)]
    /\ pc' = AfterJoinCheck(h, "at_join", "at_move")
    /\ cur' = <<h, r, jt[h]>>
    /\ UNCHANGED <<run, joins, detaches, jt, jst, err, terminated, gvars>>

\* operator=(std::thread other): join() returns
JTAssignThreadJoined ==
    /\ pc = "at_join" /\ ~terminated
    /\ Completed(jt[cur[1]])
    /\ joins' = [joins EXCEPT ![jt[cur[1]]] = Bump(@)]
    /\ jt' = [jt EXCEPT ![cur[1]] = Released(@)]
    /\ pc' = "at_move"
    /\ UNCHANGED <<run, detaches, raw, jst, param, cur, err, terminated, gvars>>

\* operator=(std::thread other): t = std::move(other); return *this
JTAssignThreadMove ==
    /\ pc = "at_move" /\ ~terminated
    /\ pc' = "idle"
    /\ cur' = NoCall
    /\ IF MoveAssignTerminates(jt[cur[1]])
         THEN /\ terminated' = TRUE
              /\ UNCHANGED <<jt, param, err>>
         ELSE /\ jt' = [jt EXCEPT ![cur[1]] = param]
              /\ param' = MovedFrom(param)
              /\ err' = "ok"
              /\ UNCHANGED terminated
    /\ UNCHANGED <<run, joins, detaches, raw, jst, gvars>>

\* ~joining_thread(): the call, up to the blocking join
JTDtor(h) ==
    /\ Caller
    /\ jst[h] = "alive"
    /\ IF joinable(h)
         THEN /\ pc' = "dtor_join"
              /\ cur' = <<h, 0, jt[h]>>
              /\ UNCHANGED <<jst, err>>
         ELSE /\ jst' = [jst EXCEPT ![h] = "dead"]
              /\ err' = "ok"
              /\ UNCHANGED <<pc, cur>>
    /\ UNCHANGED <<run, joins, detaches, raw, jt, param, terminated, gvars>>

\* ~joining_thread(): join() returns and the object is gone
JTDtorJoined ==
    /\ pc = "dtor_join" /\ ~terminated
    /\ Completed(jt[cur[1]])
    /\ joins' = [joins EXCEPT ![jt[cur[1]]] = Bump(@)]
    /\ jt' = [jt EXCEPT ![cur[1]] = Released(@)]
    /\ jst' = [jst EXCEPT ![cur[1]] = "dead"]
    /\ pc' = "idle"
    /\ cur' = NoCall
    /\ err' = "ok"
    /\ UNCHANGED <<run, detaches, raw, param, terminated, gvars>>

\* Faulty variant: a swap that only copies other.t into t.
SwappedOneWay(f, a, b) == [f EXCEPT ![a] = f[b]]

\* t.swap(other.t): the two std::thread objects exchange what they hold.
Swapped(f, a, b) == [f EXCEPT ![a] = f[b], ![b] = f[a]]

\* swap(joining_thread& other)
JTSwap(a, b) ==
    /\ Caller
    /\ jst[a] = "alive" /\ jst[b] = "alive"
    /\ jt' = Swapped(jt, a, b)
    /\ err' = "ok"
    /\ UNCHANGED <<run, joins, detaches, raw, jst, param, pc, cur, terminated, gvars>>

\* join(): t.join() throws std::system_error when t is not joinable
JTJoin(h) ==
    /\ Caller
    /\ jst[h] = "alive"
    /\ IF ~JoinThrows(jt[h])
         THEN /\ pc' = "join"
              /\ cur' = <<h, 0, jt[h]>>
              /\ UNCHANGED err
         ELSE /\ err' = "system_error"
              /\ UNCHANGED <<pc, cur>>
    /\ UNCHANGED <<run, joins, detaches, raw, jt, jst, param, terminated, gvars>>

\* join(): t.join() returns
JTJoinReturn ==
    /\ pc = "join" /\ ~terminated
    /\ Completed(jt[cur[1]])
    /\ joins' = [joins EXCEPT ![jt[cur[1]]] = Bump(@)]
    /\ jt' = [jt EXCEPT ![cur[1]] = Released(@)]
    /\ pc' = "idle"
    /\ cur' = NoCall
    /\ err' = "ok"
    /\ UNCHANGED <<run, detaches, raw, jst, param, terminated, gvars>>

\* detach(): t.detach() throws std::system_error when t is not joinable
JTDetach(h) ==
    /\ Caller
    /\ jst[h] = "alive"
    /\ IF ~DetachThrows(jt[h])
         THEN /\ detaches' = [detaches EXCEPT ![jt[h]] = Bump(@)]
              /\ jt' = [jt EXCEPT ![h] = Detached(@)]
              /\ err' = "ok"
         ELSE /\ err' = "system_error"
              /\ UNCHANGED <<detaches, jt>>
    /\ UNCHANGED <<run, joins, raw, jst, param, pc, cur, terminated, gvars>>

----------------------------------------------------------------------------
\* Any sequence of operations on joining_thread and std::thread objects.

Next ==
    \/ \E k \in Tasks : TaskFinish(k) /\ UNCHANGED fvars
    \/ \E r \in Raw : RawLaunch(r) /\ UNCHANGED fvars
    \/ \E r \in Raw : RawJoin(r) /\ UNCHANGED fvars
    \/ \E r \in Raw : RawDetach(r) /\ UNCHANGED fvars
    \/ \E d, s \in Raw : RawMoveAssign(d, s) /\ UNCHANGED fvars
    \/ RawJoinReturn /\ UNCHANGED fvars
    \/ \E h \in JT : JTDefault(h) /\ UNCHANGED fvars
    \/ \E h \in JT : JTLaunch(h) /\ UNCHANGED fvars
    \/ \E h \in JT : JTDtor(h) /\ UNCHANGED fvars
    \/ \E h \in JT : JTJoin(h) /\ UNCHANGED fvars
    \/ \E h \in JT : JTDetach(h) /\ UNCHANGED fvars
    \/ \E h \in JT, r \in Raw : JTFromThread(h, r) /\ UNCHANGED fvars
    \/ \E h \in JT, r \in Raw : JTAssignThread(h, r) /\ UNCHANGED fvars
    \/ \E h, o \in JT : JTMoveCtor(h, o) /\ UNCHANGED fvars
    \/ \E h, o \in JT : JTMoveAssign(h, o) /\ UNCHANGED fvars
    \/ \E h, o \in JT : JTSwap(h, o) /\ UNCHANGED fvars
    \/ JTMoveAssignJoined /\ UNCHANGED fvars
    \/ JTMoveAssignMove /\ UNCHANGED fvars
    \/ JTAssignThreadJoined /\ UNCHANGED fvars
    \/ JTAssignThreadMove /\ UNCHANGED fvars
    \/ JTDtorJoined /\ UNCHANGED fvars
    \/ JTJoinReturn /\ UNCHANGED fvars

Spec == Init /\ [][Next]_vars

----------------------------------------------------------------------------
\* thread_guard (section 2.1.3) and scoped_thread (listing 2.6).

\* Faulty variants of the definitions below.
GuardAlwaysJoins(t) == TRUE
GuardNeverJoins(t) == FALSE
ScopedCtorNeverThrows(t) == FALSE

\* ~thread_guard(): if (t.joinable())
GuardJoins(t) == Joinable(t)

\* scoped_thread(std::thread t_): if (!t.joinable()) throw std::logic_error
ScopedCtorThrows(t) == ~Joinable(t)

\* explicit thread_guard(std::thread& t_), with t_ the caller's raw[r]
GuardCtor(g, r) ==
    /\ Caller
    /\ gst[g] = "none"
    /\ gst' = [gst EXCEPT ![g] = "alive"]
    /\ gref' = [gref EXCEPT ![g] = r]
    /\ err' = "ok"
    /\ UNCHANGED <<run, joins, detaches, raw, jt, jst, param, pc, cur, terminated, sc, sst>>

\* ~thread_guard(): the call, up to the blocking join.  An exception that
\* leaves a destructor calls std::terminate().
GuardDtor(g) ==
    /\ Caller
    /\ gst[g] = "alive"
    /\ IF GuardJoins(raw[gref[g]])
         THEN IF JoinThrows(raw[gref[g]])
                THEN /\ terminated' = TRUE
                     /\ UNCHANGED <<pc, cur, gst, err>>
                ELSE /\ pc' = "g_join"
                     /\ cur' = <<g, gref[g], raw[gref[g]]>>
                     /\ UNCHANGED <<gst, err, terminated>>
         ELSE /\ gst' = [gst EXCEPT ![g] = "dead"]
              /\ err' = "ok"
              /\ UNCHANGED <<pc, cur, terminated>>
    /\ UNCHANGED <<run, joins, detaches, raw, jt, jst, param, gref, sc, sst>>

\* ~thread_guard(): t.join() returns and the guard is gone
GuardDtorJoined ==
    /\ pc = "g_join" /\ ~terminated
    /\ Completed(raw[cur[2]])
    /\ joins' = [joins EXCEPT ![raw[cur[2]]] = Bump(@)]
    /\ raw' = [raw EXCEPT ![cur[2]] = Released(@)]
    /\ gst' = [gst EXCEPT ![cur[1]] = "dead"]
    /\ pc' = "idle"
    /\ cur' = NoCall
    /\ err' = "ok"
    /\ UNCHANGED <<run, detaches, jt, jst, param, terminated, gref, sc, sst>>

\* explicit scoped_thread(std::thread t_), called with std::move(raw[r]):
\* the member takes the thread; when the constructor throws, the object
\* never exists and its member (not joinable) is destroyed.
ScopedCtor(s, r) ==
    /\ Caller
    /\ sst[s] = "none"
    /\ raw' = [raw EXCEPT ![r] = MovedFrom(@)]
    /\ IF ScopedCtorThrows(raw[r])
         THEN /\ err' = "logic_error"
              /\ UNCHANGED <<sc, sst>>
         ELSE /\ sc' = [sc EXCEPT ![s] = raw[r]]
              /\ sst' = [sst EXCEPT ![s] = "alive"]
              /\ err' = "ok"
    /\ UNCHANGED <<run, joins, detaches, jt, jst, param, pc, cur, terminated, gref, gst>>

\* scoped_thread t{ std::thread(func(some_local_state)) }
ScopedLaunch(s) ==
    /\ Caller
    /\ sst[s] = "none"
    /\ Fresh # {}
    /\ run' = [run EXCEPT ![NewTask] = "running"]
    /\ IF ScopedCtorThrows(NewTask)
         THEN /\ err' = "logic_error"
              /\ UNCHANGED <<sc, sst>>
         ELSE /\ sc' = [sc EXCEPT ![s] = NewTask]
              /\ sst' = [sst EXCEPT ![s] = "alive"]
              /\ err' = "ok"
    /\ UNCHANGED <<joins, detaches, raw, jt, jst, param, pc, cur, terminated, gref, gst>>

\* ~scoped_thread(): t.join(), unchecked, up to the blocking join
ScopedDtor(s) ==
    /\ Caller
    /\ sst[s] = "alive"
    /\ IF JoinThrows(sc[s])
         THEN /\ terminated' = TRUE
              /\ UNCHANGED <<pc, cur>>
         ELSE /\ pc' = "s_join"
              /\ cur' = <<s, 0, sc[s]>>
              /\ UNCHANGED terminated
    /\ UNCHANGED <<run, joins, detaches, raw, jt, jst, param, err, gvars>>

\* ~scoped_thread(): t.join() returns and the object is gone
ScopedDtorJoined ==
    /\ pc = "s_join" /\ ~terminated
    /\ Completed(sc[cur[1]])
    /\ joins' = [joins EXCEPT ![sc[cur[1]]] = Bump(@)]
    /\ sc' = [sc EXCEPT ![cur[1]] = Released(@)]
    /\ sst' = [sst EXCEPT ![cur[1]] = "dead"]
    /\ pc' = "idle"
    /\ cur' = NoCall
    /\ err' = "ok"
    /\ UNCHANGED <<run, detaches, raw, jt, jst, param, terminated, gref, gst>>

\* Any sequence of operations on std::thread objects, thread_guards and
\* scoped_threads.
NextRAII ==
    \/ \E k \in Tasks : TaskFinish(k) /\ UNCHANGED fvars
    \/ \E r \in Raw : RawLaunch(r) /\ UNCHANGED fvars
    \/ \E r \in Raw : RawJoin(r) /\ UNCHANGED fvars
    \/ \E r \in Raw : RawDetach(r) /\ UNCHANGED fvars
    \/ \E d, s \in Raw : RawMoveAssign(d, s) /\ UNCHANGED fvars
    \/ RawJoinReturn /\ UNCHANGED fvars
    \/ \E g \in Guard, r \in Raw : GuardCtor(g, r) /\ UNCHANGED fvars
    \/ \E g \in Guard : GuardDtor(g) /\ UNCHANGED fvars
    \/ GuardDtorJoined /\ UNCHANGED fvars
    \/ \E s \in Scoped, r \in Raw : ScopedCtor(s, r) /\ UNCHANGED fvars
    \/ \E s \in Scoped : ScopedLaunch(s) /\ UNCHANGED fvars
    \/ \E s \in Scoped : ScopedDtor(s) /\ UNCHANGED fvars
    \/ ScopedDtorJoined /\ UNCHANGED fvars

SpecRAII == Init /\ [][NextRAII]_vars

----------------------------------------------------------------------------
\* The two functions f() that launch func(some_local_state): with a
\* thread_guard (section 2.1.3) and with a scoped_thread (listing 2.6).
\* Each uses the std::thread object raw[1], guard 1 and scoped_thread 1.

\* func::operator()(): one iteration of the loop, do_something(i), where i
\* refers to some_local_state.
FuncStep(k) ==
    /\ ~terminated
    /\ run[k] = "running"
    /\ iter[k] < LoopBound
    /\ iter' = [iter EXCEPT ![k] = @ + 1]
    /\ dangling' = (dangling \/ local[k] = "destroyed")
    /\ UNCHANGED <<run, joins, detaches, raw, jt, jst, param, pc, cur, err, terminated, gvars>>
    /\ UNCHANGED <<prog, fpc, local, exc, lvars>>

\* func::operator()(): the loop is over and the thread of execution ends.
FuncExit(k) ==
    /\ iter[k] = LoopBound
    /\ TaskFinish(k)
    /\ UNCHANGED fvars

\* f is called: int some_local_state; func my_func(some_local_state);
\* The task that f will launch is the one whose func refers to this object.
FStart(p) ==
    /\ Caller
    /\ prog = "none"
    /\ Fresh # {}
    /\ prog' = p
    /\ local' = [local EXCEPT ![NewTask] = "alive"]
    /\ fpc' = "launch"
    /\ UNCHANGED <<run, joins, detaches, raw, jt, jst, param, pc, cur, err, terminated, gvars>>
    /\ UNCHANGED <<iter, dangling, exc, lvars>>

\* std::thread t(my_func);
FGuardLaunch ==
    /\ prog = "f_guard" /\ fpc = "launch"
    /\ RawLaunch(1)
    /\ fpc' = "guard"
    /\ UNCHANGED <<prog, local, iter, dangling, exc, lvars>>

\* thread_guard g(t);
FGuardCtor ==
    /\ prog = "f_guard" /\ fpc = "guard"
    /\ GuardCtor(1, 1)
    /\ fpc' = "work"
    /\ UNCHANGED <<prog, local, iter, dangling, exc, lvars>>

\* scoped_thread t{ std::thread(func(some_local_state)) };
FScopedLaunch ==
    /\ prog = "f_scoped" /\ fpc = "launch"
    /\ ScopedLaunch(1)
    /\ fpc' = IF sst'[1] = "alive" THEN "work" ELSE "dtor_local"
    /\ exc' = (sst'[1] # "alive")
    /\ UNCHANGED <<prog, local, iter, dangling, lvars>>

\* do_something_in_current_thread(); returns or throws, and in both cases
\* the objects of f are destroyed in the reverse order of their declaration.
FWork(throws) ==
    /\ Caller
    /\ fpc = "work"
    /\ exc' = throws
    /\ fpc' = IF prog = "f_guard" THEN "dtor_g" ELSE "dtor_s"
    /\ UNCHANGED <<run, joins, detaches, raw, jt, jst, param, pc, cur, err, terminated, gvars>>
    /\ UNCHANGED <<prog, local, iter, dangling, lvars>>

\* g is destroyed.
FGuardDtor ==
    /\ prog = "f_guard" /\ fpc = "dtor_g"
    /\ GuardDtor(1)
    /\ fpc' = IF pc' = "idle" /\ ~terminated' THEN "dtor_t" ELSE fpc
    /\ UNCHANGED <<prog, local, iter, dangling, exc, lvars>>

FGuardDtorJoined ==
    /\ prog = "f_guard" /\ fpc = "dtor_g"
    /\ GuardDtorJoined
    /\ fpc' = "dtor_t"
    /\ UNCHANGED <<prog, local, iter, dangling, exc, lvars>>

\* t is destroyed.
FThreadDtor ==
    /\ Caller
    /\ prog = "f_guard" /\ fpc = "dtor_t"
    /\ IF ThreadDtorTerminates(raw[1])
         THEN terminated' = TRUE /\ UNCHANGED fpc
         ELSE fpc' = "dtor_local" /\ UNCHANGED terminated
    /\ UNCHANGED <<run, joins, detaches, raw, jt, jst, param, pc, cur, err, gvars>>
    /\ UNCHANGED <<prog, local, iter, dangling, exc, lvars>>

\* The scoped_thread t is destroyed.
FScopedDtor ==
    /\ prog = "f_scoped" /\ fpc = "dtor_s"
    /\ ScopedDtor(1)
    /\ UNCHANGED fvars

FScopedDtorJoined ==
    /\ prog = "f_scoped" /\ fpc = "dtor_s"
    /\ ScopedDtorJoined
    /\ fpc' = "dtor_local"
    /\ UNCHANGED <<prog, local, iter, dangling, exc, lvars>>

\* my_func and some_local_state are destroyed, and f is left.
FLocalDtor ==
    /\ Caller
    /\ fpc = "dtor_local"
    /\ local' = [k \in Tasks |-> IF local[k] = "alive" THEN "destroyed" ELSE local[k]]
    /\ fpc' = "exit"
    /\ UNCHANGED <<run, joins, detaches, raw, jt, jst, param, pc, cur, err, terminated, gvars>>
    /\ UNCHANGED <<prog, iter, dangling, exc, lvars>>

\* f has returned (or its exception has left it) and the caller goes on; the
\* storage of f's objects is free for the next call.
FReturn ==
    /\ Caller
    /\ fpc = "exit"
    /\ prog' = "none"
    /\ fpc' = "start"
    /\ exc' = FALSE
    /\ gst' = [gst EXCEPT ![1] = "none"]
    /\ sst' = [sst EXCEPT ![1] = "none"]
    /\ UNCHANGED <<run, joins, detaches, raw, jt, jst, param, pc, cur, err, terminated>>
    /\ UNCHANGED <<gref, sc, local, iter, dangling, lvars>>

NextF ==
    \/ \E p \in {"f_guard", "f_scoped"} : FStart(p)
    \/ \E k \in Tasks : FuncStep(k)
    \/ \E k \in Tasks : FuncExit(k)
    \/ FGuardLaunch
    \/ FGuardCtor
    \/ FScopedLaunch
    \/ \E throws \in BOOLEAN : FWork(throws)
    \/ FGuardDtor
    \/ FGuardDtorJoined
    \/ FThreadDtor
    \/ FScopedDtor
    \/ FScopedDtorJoined
    \/ FLocalDtor
    \/ FReturn

SpecF == Init /\ [][NextF]_vars

----------------------------------------------------------------------------
\* Properties of joining_thread.

Resolutions(k) == joins[k] + detaches[k]
Held == {raw[r] : r \in Raw} \cup {param}
InJoin == pc \in {"join", "dtor_join", "ma_join", "at_join", "raw_join", "g_join", "s_join"}

\* C1: no task is ever joined or detached more than once, and when no
\* joining_thread is left alive (and the caller is between calls) every
\* launched task that is not still held by a plain std::thread has been
\* resolved exactly once.
C1_ResolvedExactlyOnce ==
    /\ \A k \in Tasks : Resolutions(k) <= 1
    /\ (pc = "idle" /\ ~terminated /\ \A h \in JT : jst[h] # "alive") =>
         \A k \in Tasks : (run[k] # "none" /\ k \notin Held) => Resolutions(k) = 1

\* Both handles have been destroyed; one task was joined by a handle and
\* another was detached.
C1_Witness ==
    /\ pc = "idle" /\ ~terminated
    /\ \A h \in JT : jst[h] = "dead"
    /\ \E k \in Tasks : joins[k] = 1
    /\ \E k \in Tasks : detaches[k] = 1

\* The steps and states that C2 is about.
C2_MoveStep ==
    /\ (pc = "ma_move" /\ pc' = "idle" /\ cur[1] # cur[2]) =>
         /\ cur[3] # NoTask => (run[cur[3]] = "done" /\ joins[cur[3]] = 1
                                /\ detaches[cur[3]] = 0)
         /\ jt[cur[1]] = NoTask
         /\ ~terminated'
         /\ jt'[cur[1]] = jt[cur[2]]
         /\ jt'[cur[2]] = NoTask
    /\ (pc = "at_move" /\ pc' = "idle") =>
         /\ cur[3] # NoTask => (run[cur[3]] = "done" /\ joins[cur[3]] = 1
                                /\ detaches[cur[3]] = 0)
         /\ jt[cur[1]] = NoTask
         /\ ~terminated'
         /\ jt'[cur[1]] = param
         /\ raw'[cur[2]] = NoTask /\ param' = NoTask

\* C2: in both assignment operators, at the step t = std::move(source) the
\* task A that *this held on entry has completed and has been joined exactly
\* once, *this holds nothing yet, the step does not terminate the program,
\* and after it *this holds what the source held and the source is empty.
C2_MoveAssignResolvesPrior == [][C2_MoveStep]_vars

\* h1 held a task A on entry, the source (another joining_thread) holds a
\* joinable task B, and the join of A has returned.
C2_Witness ==
    /\ pc = "ma_move" /\ cur[1] # cur[2]
    /\ cur[3] # NoTask /\ joins[cur[3]] = 1
    /\ Joinable(jt[cur[2]])

\* The steps and states that C8 is about.
C8_JoinStep ==
    \A h \in JT :
        /\ (pc = "join" /\ cur[1] = h /\ pc' = "idle") =>
             (err' = "ok" /\ ~joinable(h)' /\ joins'[cur[3]] = 1)
        /\ (JTJoin(h) /\ ~joinable(h)) =>
             /\ err' = "system_error"
             /\ pc' = "idle"
             /\ ~joinable(h)'
             /\ UNCHANGED <<run, joins, detaches, raw, jt, jst, param, terminated>>

\* C8: when join() returns normally the handle is not joinable; join() on a
\* handle that is not joinable throws std::system_error, joins nothing and
\* leaves the handle empty.
C8_JoinThenNotJoinable == [][C8_JoinStep]_vars

\* A join() on a handle whose task has been joined has just failed.
C8_Witness ==
    /\ pc = "idle" /\ err = "system_error"
    /\ \E h \in JT : jst[h] = "alive" /\ ~joinable(h)
    /\ \E k \in Tasks : joins[k] = 1

\* The steps and states that C9 is about.
C9_DetachedState ==
    \A k \in Tasks : detaches[k] >= 1 =>
        /\ joins[k] = 0
        /\ \A h \in JT : jt[h] # k
        /\ InJoin => cur[3] # k
        /\ (run[k] = "running" /\ ~terminated) => ENABLED TaskFinish(k)

C9_DetachStep ==
    \A h \in JT :
        /\ (JTDetach(h) /\ joinable(h)) =>
             (err' = "ok" /\ ~joinable(h)' /\ detaches'[jt[h]] = 1 /\ run' = run)
        /\ (JTDtor(h) /\ ~joinable(h)) =>
             (pc' = "idle" /\ jst'[h] = "dead" /\ joins' = joins)
        /\ \A o \in JT : (JTMoveAssign(h, o) /\ ~joinable(h)) =>
             (pc' = "ma_move" /\ joins' = joins)

\* C9: a successful detach() leaves the handle not joinable; a detached task
\* is never joined, is held by no handle, is never what the caller waits for
\* in a join, and can still finish; destroying an empty handle or
\* move-assigning into it does not enter a join.
C9_DetachIndependent == [][C9_DetachedState' /\ C9_DetachStep]_vars

\* A handle that detached a still running task has been destroyed.
C9_Witness ==
    \E h \in JT, k \in Tasks :
        jst[h] = "dead" /\ detaches[k] = 1 /\ run[k] = "running" /\ pc = "idle"

\* The steps and states that C10 is about.
C10_DetachStep ==
    /\ \A t \in Thread : DetachThrows(t) = JoinThrows(t)
    /\ \A h \in JT : (JTDetach(h) /\ ~joinable(h)) =>
         /\ err' = "system_error"
         /\ pc' = "idle"
         /\ UNCHANGED <<run, joins, detaches, raw, jt, jst, param, terminated>>

\* C10: detach() on a handle that is not joinable throws std::system_error,
\* exactly when join() would, and changes neither the handle nor any task.
C10_DetachNotJoinable == [][C10_DetachStep]_vars

\* A detach() on a handle emptied by an earlier detach() has just failed.
C10_Witness ==
    /\ pc = "idle" /\ err = "system_error"
    /\ \E h \in JT : jst[h] = "alive" /\ ~joinable(h)
    /\ \E k \in Tasks : detaches[k] = 1
    /\ \A k \in Tasks : joins[k] = 0

----------------------------------------------------------------------------
\* Properties of thread_guard and scoped_thread.

\* The steps and states that C5 is about.
C5_GuardStep ==
    /\ \A k \in Tasks : Resolutions(k)' <= 1
    /\ \A g \in Guard :
        /\ (GuardDtor(g) /\ Joinable(raw[gref[g]])) =>
             (pc' = "g_join" /\ cur'[3] = raw[gref[g]] /\ ~terminated')
        /\ (GuardDtor(g) /\ ~Joinable(raw[gref[g]])) =>
             /\ pc' = "idle" /\ err' = "ok" /\ ~terminated'
             /\ gst'[g] = "dead"
             /\ UNCHANGED <<run, joins, detaches, raw>>
        /\ (pc = "g_join" /\ cur[1] = g /\ pc' = "idle") =>
             (run[cur[3]] = "done" /\ joins'[cur[3]] = 1 /\ ~Joinable(raw'[cur[2]]))

\* C5: ~thread_guard() enters t.join() exactly when the referenced thread is
\* joinable at that moment, and that join resolves the task once; when the
\* thread is not joinable (joined or detached by the caller, or joined by
\* another guard) the destructor changes nothing and raises nothing.
C5_GuardJoinsIffJoinable == [][C5_GuardStep]_vars

\* Two guards on the same thread have been destroyed: the first joined it,
\* the second did nothing.
C5_Witness ==
    /\ pc = "idle" /\ ~terminated /\ err = "ok"
    /\ \A g \in Guard : gst[g] = "dead" /\ gref[g] = 1
    /\ \E k \in Tasks : joins[k] = 1 /\ \A j \in Tasks \ {k} : run[j] = "none"

\* The steps and states that C6 is about.
C6_CtorStep ==
    \A s \in Scoped, r \in Raw :
        (ScopedCtor(s, r) /\ ~Joinable(raw[r])) =>
            /\ err' = "logic_error"
            /\ sst'[s] = "none"
            /\ pc' = "idle" /\ ~terminated'
            /\ UNCHANGED <<run, joins, detaches, raw, sc>>

\* C6: scoped_thread's constructor, given a thread that is not joinable,
\* throws std::logic_error; the object does not come to exist, no join is
\* entered and no task is joined or detached.
C6_ScopedCtorRejects == [][C6_CtorStep]_vars

\* The constructor has just rejected a thread that had been joined before.
C6_Witness ==
    /\ pc = "idle" /\ err = "logic_error" /\ ~terminated
    /\ \A s \in Scoped : sst[s] = "none"
    /\ \E k \in Tasks : joins[k] = 1

\* C7: a scoped_thread that exists holds a joinable thread, so the unchecked
\* t.join() of its destructor does not throw.
C7_ScopedNeverEmpty ==
    \A s \in Scoped :
        /\ sst[s] = "alive" => (Joinable(sc[s]) /\ ~JoinThrows(sc[s]))
        /\ (pc = "s_join" /\ cur[1] = s) => (sst[s] = "alive" /\ sc[s] = cur[3])

\* A scoped_thread is inside its destructor's join.
C7_Witness ==
    pc = "s_join" /\ Joinable(sc[cur[1]]) /\ run[sc[cur[1]]] = "running"

----------------------------------------------------------------------------
\* Properties of the two functions f().

\* The task of the call of f in progress: the last one given a some_local_state.
Started == {k \in Tasks : local[k] # "none"}
CurTask == CHOOSE k \in Started : \A j \in Started : j <= k

\* C3: in f() with a scoped_thread, once the scoped_thread is destroyed the
\* task has completed, has run all its iterations and has been joined once;
\* this holds before some_local_state is destroyed and when f is left, and
\* func never accesses some_local_state after its destruction.
C3_ScopedJoinsOnExit ==
    prog = "f_scoped" =>
        /\ ~terminated /\ ~dangling
        /\ fpc \in {"dtor_local", "exit"} => sst[1] = "dead"
        /\ sst[1] = "dead" =>
             (run[CurTask] = "done" /\ iter[CurTask] = LoopBound /\ joins[CurTask] = 1)
        /\ local[CurTask] = "destroyed" =>
             (sst[1] = "dead" /\ run[CurTask] = "done" /\ iter[CurTask] = LoopBound)

\* f() with a scoped_thread has been left, without any explicit join.
C3_Witness ==
    /\ prog = "f_scoped" /\ fpc = "exit" /\ ~exc
    /\ local[CurTask] = "destroyed"
    /\ joins[CurTask] = 1 /\ iter[CurTask] = LoopBound

\* The steps and states that C4 is about.
C4_State ==
    prog = "f_guard" =>
        /\ ~terminated /\ ~dangling
        /\ \A k \in Tasks : Resolutions(k) <= 1 /\ detaches[k] = 0
        /\ fpc \in {"dtor_t", "dtor_local", "exit"} =>
             (gst[1] = "dead" /\ joins[CurTask] = 1 /\ run[CurTask] = "done"
              /\ ~Joinable(raw[1]))
        /\ local[CurTask] = "destroyed" => (fpc = "exit" /\ joins[CurTask] = 1)
        /\ fpc = "exit" => local[CurTask] = "destroyed"

C4_Step ==
    /\ C4_State'
    /\ (prog = "f_guard" /\ joins' # joins) => (pc = "g_join" /\ fpc = "dtor_g")

\* C4: in f() with a thread_guard, whether do_something_in_current_thread()
\* returns or throws, the thread is joined exactly once, inside ~thread_guard(),
\* before t and some_local_state are destroyed; the program is not terminated
\* and func never accesses some_local_state after its destruction.
C4_GuardJoinsOnEveryExit == [][C4_Step]_vars

\* f() with a thread_guard has been left by an exception.
C4_Witness ==
    /\ prog = "f_guard" /\ fpc = "exit" /\ exc
    /\ local[CurTask] = "destroyed" /\ joins[CurTask] = 1

----------------------------------------------------------------------------
\* Transfer of ownership between handles.

\* std::thread d = std::move(s): d is a new object, so nothing is attached to
\* it before the move.
RawMoveCtor(d, s) ==
    /\ Caller
    /\ d # s /\ raw[d] = NoTask
    /\ raw' = [raw EXCEPT ![d] = raw[s], ![s] = MovedFrom(@)]
    /\ err' = "ok"
    /\ UNCHANGED <<run, joins, detaches, jt, jst, param, pc, cur, terminated, gvars>>

\* Any sequence of constructions and moves of std::thread objects and
\* joining_threads.
NextMove ==
    \/ \E k \in Tasks : TaskFinish(k) /\ UNCHANGED fvars
    \/ \E r \in RawAll : RawLaunch(r) /\ UNCHANGED fvars
    \/ \E d, s \in RawAll : RawMoveCtor(d, s) /\ UNCHANGED fvars
    \/ \E d, s \in RawAll : RawMoveAssign(d, s) /\ UNCHANGED fvars
    \/ \E h \in JT : JTDefault(h) /\ UNCHANGED fvars
    \/ \E h \in JT : JTLaunch(h) /\ UNCHANGED fvars
    \/ \E h \in JT, r \in RawAll : JTFromThread(h, r) /\ UNCHANGED fvars
    \/ \E h \in JT, r \in RawAll : JTAssignThread(h, r) /\ UNCHANGED fvars
    \/ \E h, o \in JT : JTMoveCtor(h, o) /\ UNCHANGED fvars
    \/ \E h, o \in JT : JTMoveAssign(h, o) /\ UNCHANGED fvars
    \/ JTMoveAssignJoined /\ UNCHANGED fvars
    \/ JTMoveAssignMove /\ UNCHANGED fvars
    \/ JTAssignThreadJoined /\ UNCHANGED fvars
    \/ JTAssignThreadMove /\ UNCHANGED fvars

SpecMove == Init /\ [][NextMove]_vars

\* Any sequence of constructions, moves, swaps, joins, detaches and
\* destructions of joining_threads and scoped_threads, with the std::thread
\* objects they are constructed from.
NextOwn ==
    \/ \E k \in Tasks : TaskFinish(k) /\ UNCHANGED fvars
    \/ \E r \in Raw : RawLaunch(r) /\ UNCHANGED fvars
    \/ \E h \in JT : JTDefault(h) /\ UNCHANGED fvars
    \/ \E h \in JT : JTLaunch(h) /\ UNCHANGED fvars
    \/ \E h \in JT : JTDtor(h) /\ UNCHANGED fvars
    \/ \E h \in JT : JTJoin(h) /\ UNCHANGED fvars
    \/ \E h \in JT : JTDetach(h) /\ UNCHANGED fvars
    \/ \E h \in JT, r \in Raw : JTFromThread(h, r) /\ UNCHANGED fvars
    \/ \E h \in JT, r \in Raw : JTAssignThread(h, r) /\ UNCHANGED fvars
    \/ \E h, o \in JT : JTMoveCtor(h, o) /\ UNCHANGED fvars
    \/ \E h, o \in JT : JTMoveAssign(h, o) /\ UNCHANGED fvars
    \/ \E h, o \in JT : JTSwap(h, o) /\ UNCHANGED fvars
    \/ JTMoveAssignJoined /\ UNCHANGED fvars
    \/ JTMoveAssignMove /\ UNCHANGED fvars
    \/ JTAssignThreadJoined /\ UNCHANGED fvars
    \/ JTAssignThreadMove /\ UNCHANGED fvars
    \/ JTDtorJoined /\ UNCHANGED fvars
    \/ JTJoinReturn /\ UNCHANGED fvars
    \/ \E s \in Scoped, r \in Raw : ScopedCtor(s, r) /\ UNCHANGED fvars
    \/ \E s \in Scoped : ScopedLaunch(s) /\ UNCHANGED fvars
    \/ \E s \in Scoped : ScopedDtor(s) /\ UNCHANGED fvars
    \/ ScopedDtorJoined /\ UNCHANGED fvars

SpecOwn == Init /\ [][NextOwn]_vars

\* The steps that C11 is about: a move from a source that owns a joinable
\* task into a distinct handle.
C11_MoveStep ==
    /\ \A h, o \in JT : (JTMoveCtor(h, o) /\ joinable(o)) =>
         /\ jt'[h] = jt[o] /\ Joinable(jt'[h])
         /\ ~Joinable(jt'[o])
    /\ (pc = "ma_move" /\ pc' = "idle" /\ cur[1] # cur[2] /\ joinable(cur[2])) =>
         /\ ~terminated'
         /\ jt'[cur[1]] = jt[cur[2]] /\ Joinable(jt'[cur[1]])
         /\ ~Joinable(jt'[cur[2]])
    /\ \A d, s \in RawAll : (RawMoveCtor(d, s) /\ Joinable(raw[s])) =>
         /\ raw'[d] = raw[s] /\ Joinable(raw'[d])
         /\ ~Joinable(raw'[s])
    /\ \A d, s \in RawAll : (RawMoveAssign(d, s) /\ d # s /\ Joinable(raw[s])) =>
         /\ terminated' = Joinable(raw[d])
         /\ ~terminated' =>
              /\ raw'[d] = raw[s] /\ Joinable(raw'[d])
              /\ ~Joinable(raw'[s])

Owners(k) ==
    {<<"joining_thread", h>> : h \in {x \in JT : jt[x] = k}}
      \cup {<<"scoped_thread", s>> : s \in {x \in Scoped : sc[x] = k}}
      \cup {<<"thread", r>> : r \in {x \in RawAll : raw[x] = k}}
      \cup (IF param = k THEN {<<"thread", 0>>} ELSE {})

\* C12: in every reachable state each task that has not been joined or
\* detached is owned by at most one handle, and a task that has been joined
\* or detached is owned by none.
C12_OwnershipExclusive ==
    \A k \in Tasks :
        /\ Cardinality(Owners(k)) <= 1
        /\ Resolutions(k) > 0 => Owners(k) = {}

\* One joining_thread has been destroyed, another owns a running task, and a
\* scoped_thread owns a running task too.
C12_Witness ==
    /\ pc = "idle" /\ ~terminated
    /\ \E h, o \in JT : jst[h] = "dead" /\ jst[o] = "alive" /\ joinable(o)
                          /\ run[jt[o]] = "running"
    /\ \E s \in Scoped : sst[s] = "alive" /\ Joinable(sc[s]) /\ run[sc[s]] = "running"

\* h owns a task that has been launched and neither joined nor detached.
OwnsUnresolved(h) ==
    /\ jt[h] \in Tasks
    /\ run[jt[h]] # "none"
    /\ Resolutions(jt[h]) = 0

\* The steps that C13 is about: the two constructors, and the return of
\* join() and detach().
C13_Step ==
    /\ \A h \in JT : JTLaunch(h) => Joinable(jt'[h])
    /\ \A h \in JT : JTDefault(h) => ~Joinable(jt'[h])
    /\ (pc = "join" /\ pc' = "idle") => ~Joinable(jt'[cur[1]])
    /\ \A h \in JT : (JTDetach(h) /\ joinable(h)) => ~Joinable(jt'[h])

\* C13: a joining_thread reports joinable() exactly when it owns a task that
\* has not been joined or detached; it is joinable right after construction
\* from a callable, not joinable right after default construction, and not
\* joinable once join() or detach() has returned.
C13_JoinableIffOwns ==
    /\ [](\A h \in JT : jst[h] = "alive" => (joinable(h) <=> OwnsUnresolved(h)))
    /\ [][C13_Step]_vars

\* One joining_thread was default-constructed and is empty, the other was
\* constructed from a callable, and its task, now finished, is still owned.
C13_Witness ==
    /\ pc = "idle" /\ ~terminated
    /\ \E h, o \in JT : /\ jst[h] = "alive" /\ ~joinable(h)
                        /\ jst[o] = "alive" /\ joinable(o) /\ run[jt[o]] = "done"
    /\ \A k \in Tasks : run[k] # "none" => \E o \in JT : jt[o] = k

----------------------------------------------------------------------------
\* Blocking joins.

\* The caller blocked in joining_thread::join() is woken up once the thread
\* of execution it waits for has finished.
FairSpec == Spec /\ WF_vars(JTJoinReturn /\ UNCHANGED fvars)

\* The step that C14 is about: join() returns.
C14_JoinStep ==
    (pc = "join" /\ pc' = "idle") =>
        /\ jt[cur[1]] = cur[3] /\ cur[3] \in Tasks
        /\ run[cur[3]] = "done"
        /\ run'[cur[3]] = "done"

\* C14: join() on a joining_thread cannot return while the owned task is
\* still running, it returns only when that task has completed, and once the
\* task has completed the pending join() does return.
C14_JoinWaitsForCompletion ==
    /\ [](pc = "join" /\ run[jt[cur[1]]] = "running" =>
            ~ENABLED (JTJoinReturn /\ UNCHANGED fvars))
    /\ [][C14_JoinStep]_vars
    /\ (pc = "join" /\ run[jt[cur[1]]] = "done") ~> (pc = "idle")

\* join() has been called on a joining_thread whose task is still running,
\* and the caller is blocked in it.
C14_Witness ==
    /\ pc = "join" /\ ~terminated
    /\ jst[cur[1]] = "alive" /\ jt[cur[1]] = cur[3]
    /\ run[cur[3]] = "running"

----------------------------------------------------------------------------
\* Resolution in bulk: tasks are launched into a growing collection of
\* joining_threads, which its owner then resolves, either by calling join()
\* on every element and destroying the collection, or by destroying it right
\* away.  The elements of the collection are the joining_threads alive.

Elements == {h \in JT : jst[h] = "alive"}

BulkStart ==
    /\ Caller
    /\ prog = "none"
    /\ prog' = "bulk"
    /\ fpc' = "fill"
    /\ UNCHANGED <<run, joins, detaches, raw, jt, jst, param, pc, cur, err, terminated, gvars>>
    /\ UNCHANGED <<local, iter, dangling, exc, lvars>>

\* A task is launched into a new element.
BulkEmplace(h) ==
    /\ prog = "bulk" /\ fpc = "fill"
    /\ JTLaunch(h)
    /\ UNCHANGED fvars

\* The collection grows: an element is move-constructed in the new storage
\* and then destroyed in the old one.
BulkRelocate(h, o) ==
    /\ prog = "bulk" /\ fpc = "fill"
    /\ JTMoveCtor(h, o)
    /\ fpc' = "relocate"
    /\ entry' = o
    /\ UNCHANGED <<prog, local, iter, dangling, exc, i>>

BulkRelocated ==
    /\ prog = "bulk" /\ fpc = "relocate"
    /\ JTDtor(entry)
    /\ fpc' = IF pc' = "idle" THEN "fill" ELSE fpc
    /\ entry' = IF pc' = "idle" THEN 0 ELSE entry
    /\ UNCHANGED <<prog, local, iter, dangling, exc, i>>

\* All tasks are launched; the owner resolves the elements explicitly
\* ("join_all") or just lets the collection go ("destroy_all").
BulkResolve(how) ==
    /\ Caller
    /\ prog = "bulk" /\ fpc = "fill"
    /\ fpc' = how
    /\ entry' = 0
    /\ UNCHANGED <<run, joins, detaches, raw, jt, jst, param, pc, cur, err, terminated, gvars>>
    /\ UNCHANGED <<prog, local, iter, dangling, exc, i>>

\* The storage after position entry holds no element: the loop moves on.
BulkSkip ==
    /\ Caller
    /\ prog = "bulk" /\ fpc \in {"join_all", "destroy_all"}
    /\ entry < NumJT /\ entry + 1 \notin Elements
    /\ entry' = entry + 1
    /\ UNCHANGED <<run, joins, detaches, raw, jt, jst, param, pc, cur, err, terminated, gvars>>
    /\ UNCHANGED <<prog, fpc, local, iter, dangling, exc, i>>

\* for (auto& e : collection) e.join();
BulkJoin ==
    /\ prog = "bulk" /\ fpc = "join_all"
    /\ entry < NumJT
    /\ JTJoin(entry + 1)
    /\ entry' = entry + 1
    /\ UNCHANGED <<prog, fpc, local, iter, dangling, exc, i>>

BulkJoinReturn ==
    /\ prog = "bulk" /\ fpc = "join_all"
    /\ JTJoinReturn
    /\ UNCHANGED fvars

BulkJoinDone ==
    /\ Caller
    /\ prog = "bulk" /\ fpc = "join_all"
    /\ entry = NumJT
    /\ fpc' = "destroy_all"
    /\ entry' = 0
    /\ UNCHANGED <<run, joins, detaches, raw, jt, jst, param, pc, cur, err, terminated, gvars>>
    /\ UNCHANGED <<prog, local, iter, dangling, exc, i>>

\* The collection is destroyed: ~joining_thread() of every element.
BulkDestroy ==
    /\ prog = "bulk" /\ fpc = "destroy_all"
    /\ entry < NumJT
    /\ JTDtor(entry + 1)
    /\ entry' = IF pc' = "idle" THEN entry + 1 ELSE entry
    /\ UNCHANGED <<prog, fpc, local, iter, dangling, exc, i>>

BulkDestroyJoined ==
    /\ prog = "bulk" /\ fpc \in {"destroy_all", "relocate"}
    /\ JTDtorJoined
    /\ entry' = IF fpc = "relocate" THEN 0 ELSE entry + 1
    /\ fpc' = IF fpc = "relocate" THEN "fill" ELSE fpc
    /\ UNCHANGED <<prog, local, iter, dangling, exc, i>>

BulkDone ==
    /\ Caller
    /\ prog = "bulk" /\ fpc = "destroy_all"
    /\ entry = NumJT
    /\ fpc' = "exit"
    /\ entry' = 0
    /\ UNCHANGED <<run, joins, detaches, raw, jt, jst, param, pc, cur, err, terminated, gvars>>
    /\ UNCHANGED <<prog, local, iter, dangling, exc, i>>

\* The steps of the owner of the collection.
BulkOwner ==
    \/ BulkStart
    \/ \E h \in JT : BulkEmplace(h)
    \/ \E h, o \in JT : BulkRelocate(h, o)
    \/ BulkRelocated
    \/ \E how \in {"join_all", "destroy_all"} : BulkResolve(how)
    \/ BulkSkip
    \/ BulkJoin
    \/ BulkJoinReturn
    \/ BulkJoinDone
    \/ BulkDestroy
    \/ BulkDestroyJoined
    \/ BulkDone

NextBulk ==
    \/ \E k \in Tasks : TaskFinish(k) /\ UNCHANGED fvars
    \/ BulkOwner

\* Every task eventually finishes, and the owner, when it can take a step,
\* eventually takes one.
SpecBulk ==
    /\ Init /\ [][NextBulk]_vars
    /\ \A k \in Tasks : WF_vars(TaskFinish(k) /\ UNCHANGED fvars)
    /\ WF_vars(BulkOwner)

\* The states that C15 is about.
C15_BulkState ==
    prog = "bulk" =>
        /\ err = "ok" /\ ~terminated
        /\ \A k \in Tasks : joins[k] <= 1 /\ detaches[k] = 0
        /\ fpc = "exit" =>
             /\ Elements = {}
             /\ \A k \in Tasks : run[k] # "none" => (run[k] = "done" /\ joins[k] = 1)

\* C15: launching tasks into a collection of joining_threads and resolving
\* them all, by joining every element or just by destroying the collection,
\* joins each task exactly once and raises no error; and with every task
\* eventually finishing, the resolution always comes to its end.
C15_BulkResolution ==
    /\ []C15_BulkState
    /\ (prog = "bulk") ~> (fpc = "exit")

\* The collection is gone, and each of the MaxTasks tasks launched into it
\* has been joined once.
C15_Witness ==
    /\ prog = "bulk" /\ fpc = "exit"
    /\ \A k \in Tasks : run[k] = "done" /\ joins[k] = 1
    /\ \E h \in JT : jst[h] = "dead"

----------------------------------------------------------------------------
\* The example programs: oops (section 2.1.1), the transfer of ownership
\* between t1, t2 and t3 (section 2.3) and f of listing 2.8.

\* The std::thread objects of section 2.3.
t1 == 1
t2 == 2
t3 == 3

\* std::thread t; the new object is attached to no thread.
RawDefault(r) ==
    /\ Caller
    /\ raw[r] = NoTask
    /\ raw' = [raw EXCEPT ![r] = NoTask]
    /\ err' = "ok"
    /\ UNCHANGED <<run, joins, detaches, jt, jst, param, pc, cur, terminated, gvars>>

\* std::thread my_thread(my_func);
OopsLaunch ==
    /\ prog = "oops" /\ fpc = "launch"
    /\ RawLaunch(1)
    /\ fpc' = "detach"
    /\ UNCHANGED <<prog, local, iter, dangling, exc, lvars>>

\* my_thread.detach();
OopsDetach ==
    /\ prog = "oops" /\ fpc = "detach"
    /\ RawDetach(1)
    /\ fpc' = "dtor_t"
    /\ UNCHANGED <<prog, local, iter, dangling, exc, lvars>>

\* my_thread is destroyed.
OopsThreadDtor ==
    /\ Caller
    /\ prog = "oops" /\ fpc = "dtor_t"
    /\ IF ThreadDtorTerminates(raw[1])
         THEN terminated' = TRUE /\ UNCHANGED fpc
         ELSE fpc' = "dtor_local" /\ UNCHANGED terminated
    /\ UNCHANGED <<run, joins, detaches, raw, jt, jst, param, pc, cur, err, gvars>>
    /\ UNCHANGED <<prog, local, iter, dangling, exc, lvars>>

\* The statements of section 2.3 and f of listing 2.8 are entered.
ProgStart(p) ==
    /\ Caller
    /\ prog = "none"
    /\ prog' = p
    /\ fpc' = IF p = "transfer" THEN "l206" ELSE "emplace"
    /\ i' = 0
    /\ entry' = 0
    /\ UNCHANGED <<run, joins, detaches, raw, jt, jst, param, pc, cur, err, terminated, gvars>>
    /\ UNCHANGED <<local, iter, dangling, exc>>

\* std::thread t1(some_function);
Transfer206 ==
    /\ prog = "transfer" /\ fpc = "l206"
    /\ RawLaunch(t1)
    /\ fpc' = "l207"
    /\ UNCHANGED <<prog, local, iter, dangling, exc, lvars>>

\* std::thread t2 = std::move(t1);
Transfer207 ==
    /\ prog = "transfer" /\ fpc = "l207"
    /\ RawMoveCtor(t2, t1)
    /\ fpc' = "l208"
    /\ UNCHANGED <<prog, local, iter, dangling, exc, lvars>>

\* t1 = std::thread(some_other_function);
Transfer208 ==
    /\ prog = "transfer" /\ fpc = "l208"
    /\ RawLaunch(t1)
    /\ fpc' = IF terminated' THEN fpc ELSE "l209"
    /\ UNCHANGED <<prog, local, iter, dangling, exc, lvars>>

\* std::thread t3;
Transfer209 ==
    /\ prog = "transfer" /\ fpc = "l209"
    /\ RawDefault(t3)
    /\ fpc' = "l210"
    /\ UNCHANGED <<prog, local, iter, dangling, exc, lvars>>

\* t3 = std::move(t2);
Transfer210 ==
    /\ prog = "transfer" /\ fpc = "l210"
    /\ RawMoveAssign(t3, t2)
    /\ fpc' = IF terminated' THEN fpc ELSE "l211"
    /\ UNCHANGED <<prog, local, iter, dangling, exc, lvars>>

\* t1 = std::move(t3);
Transfer211 ==
    /\ prog = "transfer" /\ fpc = "l211"
    /\ RawMoveAssign(t1, t3)
    /\ fpc' = IF terminated' THEN fpc ELSE "exit"
    /\ UNCHANGED <<prog, local, iter, dangling, exc, lvars>>

\* The elements of the vector threads: the std::thread objects 1..size.
VectorSize == IF fpc = "emplace" THEN i ELSE i + 1

\* threads.emplace_back(do_work, i);
SpawnEmplace ==
    /\ prog = "spawn" /\ fpc = "emplace"
    /\ i < SpawnCount /\ i + 1 \in RawAll
    /\ RawLaunch(i + 1)
    /\ fpc' = "join"
    /\ entry' = 0
    /\ UNCHANGED <<prog, local, iter, dangling, exc, i>>

\* for (auto& entry : threads) entry.join(); the std::system_error of join()
\* is not caught in f.
SpawnJoin ==
    /\ prog = "spawn" /\ fpc = "join"
    /\ entry < VectorSize
    /\ RawJoin(entry + 1)
    /\ fpc' = IF JoinThrows(raw[entry + 1]) THEN "unwind" ELSE fpc
    /\ UNCHANGED <<prog, local, iter, dangling, exc, lvars>>

SpawnJoinReturn ==
    /\ prog = "spawn" /\ fpc = "join"
    /\ RawJoinReturn
    /\ entry' = entry + 1
    /\ UNCHANGED <<prog, fpc, local, iter, dangling, exc, i>>

\* The range-for is over: i++, and the test i < 20.
SpawnNext ==
    /\ Caller
    /\ prog = "spawn" /\ fpc = "join"
    /\ entry = VectorSize
    /\ i' = i + 1
    /\ entry' = 0
    /\ fpc' = IF i + 1 < SpawnCount THEN "emplace" ELSE "dtor"
    /\ UNCHANGED <<run, joins, detaches, raw, jt, jst, param, pc, cur, err, terminated, gvars>>
    /\ UNCHANGED <<prog, local, iter, dangling, exc>>

\* f is left, by its end or by the exception: threads and its elements are
\* destroyed.
SpawnVectorDtor ==
    /\ Caller
    /\ prog = "spawn" /\ fpc \in {"dtor", "unwind"}
    /\ IF \E e \in 1..VectorSize : e \in RawAll /\ ThreadDtorTerminates(raw[e])
         THEN terminated' = TRUE /\ UNCHANGED fpc
         ELSE fpc' = "exit" /\ UNCHANGED terminated
    /\ UNCHANGED <<run, joins, detaches, raw, jt, jst, param, pc, cur, err, gvars>>
    /\ UNCHANGED <<prog, local, iter, dangling, exc, lvars>>

\* The caller runs the example programs one after the other; the tasks with a
\* func are those launched by oops.
NextProg ==
    \/ FStart("oops")
    \/ \E p \in {"transfer", "spawn"} : ProgStart(p)
    \/ \E k \in Tasks : local[k] # "none" /\ FuncStep(k)
    \/ \E k \in Tasks : local[k] # "none" /\ FuncExit(k)
    \/ \E k \in Tasks : local[k] = "none" /\ TaskFinish(k) /\ UNCHANGED fvars
    \/ OopsLaunch
    \/ OopsDetach
    \/ OopsThreadDtor
    \/ FLocalDtor
    \/ FReturn
    \/ Transfer206
    \/ Transfer207
    \/ Transfer208
    \/ Transfer209
    \/ Transfer210
    \/ Transfer211
    \/ SpawnEmplace
    \/ SpawnJoin
    \/ SpawnJoinReturn
    \/ SpawnNext
    \/ SpawnVectorDtor

SpecProg == Init /\ [][NextProg]_vars

\* C16: f of listing 2.8 spawns its threads and waits for them: join() is
\* never called on a thread that is not joinable (no std::system_error), no
\* thread is joined twice, the program is not terminated, and f returns
\* after all SpawnCount iterations with every spawned thread completed and
\* joined exactly once.
C16_SpawnJoinsEachOnce ==
    prog = "spawn" =>
        /\ err # "system_error" /\ ~terminated
        /\ fpc # "unwind"
        /\ \A k \in Tasks : joins[k] <= 1
        /\ fpc = "exit" =>
             /\ i = SpawnCount
             /\ \A e \in RawAll : ~Joinable(raw[e])
             /\ \A k \in Tasks : (run[k] # "none" /\ local[k] = "none") =>
                    (run[k] = "done" /\ joins[k] = 1)

\* In the second iteration join() was called on threads[0], joined in the
\* first one, and threw; the vector was destroyed with threads[1] still
\* joinable, and std::terminate was called.
C16_Witness ==
    /\ prog = "spawn" /\ terminated /\ err = "system_error"
    /\ i = 1 /\ entry = 0
    /\ ~Joinable(raw[1]) /\ Joinable(raw[2])

\* The threads of execution launched by the statements of section 2.3.
TransferTasks == {k \in Tasks : run[k] # "none" /\ local[k] = "none"}
some_function ==
    IF TransferTasks = {} THEN NoTask
    ELSE CHOOSE k \in TransferTasks : \A j \in TransferTasks : k <= j
some_other_function ==
    IF Cardinality(TransferTasks) < 2 THEN NoTask
    ELSE CHOOSE k \in TransferTasks : \A j \in TransferTasks : k >= j

\* C17: in the sequence of section 2.3 the handles are attached after each
\* statement as its comment says, and after the last one, t1 = std::move(t3),
\* the program goes on with t1 attached to the thread running some_function
\* and t2 and t3 attached to none.
C17_TransferAsCommented ==
    prog = "transfer" =>
        /\ ~terminated
        /\ fpc = "l207" => raw[t1] = some_function /\ Joinable(raw[t1])
        /\ fpc = "l208" => raw[t2] = some_function /\ ~Joinable(raw[t1])
        /\ fpc = "l209" => raw[t1] = some_other_function /\ Joinable(raw[t1])
        /\ fpc = "l210" => ~Joinable(raw[t3])
        /\ fpc = "l211" => /\ raw[t3] = some_function /\ ~Joinable(raw[t2])
                           /\ raw[t1] = some_other_function
        /\ fpc = "exit" => /\ raw[t1] = some_function /\ Joinable(raw[t1])
                           /\ ~Joinable(raw[t2]) /\ ~Joinable(raw[t3])

\* t1 = std::move(t3) has called std::terminate: t1 was still attached to the
\* thread running some_other_function, and t3 keeps some_function.
C17_Witness ==
    /\ prog = "transfer" /\ fpc = "l211" /\ terminated
    /\ raw[t1] = some_other_function /\ Joinable(raw[t1])
    /\ raw[t3] = some_function /\ Joinable(raw[t3])
    /\ ~Joinable(raw[t2])

\* The steps that C18 is about: func::operator() calls do_something(i) with i
\* referring to a some_local_state that is gone.
C18_DanglingStep ==
    \A k \in Tasks : (FuncStep(k) /\ local[k] = "destroyed") =>
        /\ dangling'
        /\ detaches[k] = 1 /\ joins[k] = 0

\* C18: oops detaches my_thread and returns without waiting for it, so the
\* thread can still be in its loop when some_local_state is destroyed:
\* oops never joins and never terminates the program, the running thread's
\* next do_something(i) stays possible after the destruction, and such a
\* step is an access to the destroyed object.  That such an interleaving is
\* reachable is what C18_Witness states.
C18_OopsDangling ==
    /\ [](prog = "oops" => (~terminated /\ err = "ok" /\ \A k \in Tasks : joins[k] = 0))
    /\ [](\A k \in Tasks :
            (local[k] = "destroyed" /\ run[k] = "running" /\ iter[k] < LoopBound
               /\ ~terminated) => ENABLED FuncStep(k))
    /\ [][C18_DanglingStep]_vars

\* oops has returned, and the detached thread has since called
\* do_something(i) on the destroyed some_local_state.
C18_Witness ==
    /\ dangling /\ ~terminated
    /\ prog = "none"
    /\ \E k \in Tasks : /\ local[k] = "destroyed" /\ detaches[k] = 1
                        /\ joins[k] = 0 /\ iter[k] > 0

----------------------------------------------------------------------------
\* The inner assignment of joining_thread's assignment operators, and swap.

\* The step that C19 is about: the inner t = std::move(...) is carried out.
C19_AssignStep ==
    (pc \in {"ma_move", "at_move"} /\ pc' = "idle") => ~terminated'

\* C19: whenever one of joining_thread's assignment operators is at its
\* inner t = std::move(...), the destination t is not joinable, whatever
\* *this held on entry and also when the source is *this itself; so that
\* assignment never calls std::terminate.
C19_InnerAssignIntoEmpty ==
    /\ [](pc \in {"ma_move", "at_move"} =>
            (~joinable(cur[1]) /\ ~MoveAssignTerminates(jt[cur[1]])))
    /\ [][C19_AssignStep]_vars

\* A self-move-assignment h = std::move(h) of a joinable joining_thread has
\* joined its own task and is at the inner assignment.
C19_Witness ==
    /\ pc = "ma_move" /\ cur[1] = cur[2] /\ ~terminated
    /\ cur[3] # NoTask /\ joins[cur[3]] = 1 /\ detaches[cur[3]] = 0

\* The step that C20 is about: a.swap(b).
C20_SwapStep ==
    \A a, b \in JT : JTSwap(a, b) =>
        /\ jt'[a] = jt[b] /\ jt'[b] = jt[a]
        /\ \A h \in JT \ {a, b} : jt'[h] = jt[h]
        /\ UNCHANGED <<run, joins, detaches, jst, raw, param, pc, terminated>>
        /\ jst'[a] = "alive" /\ jst'[b] = "alive"
        /\ Swapped(jt', a, b) = jt

\* C20: a.swap(b) exchanges what the two joining_threads own and resolves
\* nothing: afterwards a owns what b owned and b what a owned, no task has
\* been joined, detached or otherwise changed, both handles are still there,
\* and swapping them once more gives back the original ownership.
C20_SwapExchanges == [][C20_SwapStep]_vars

\* Two joining_threads that can be swapped: one owns a running task, the
\* other owns nothing, and nothing has been joined or detached so far.
C20_Witness ==
    /\ pc = "idle" /\ ~terminated
    /\ \E a, b \in JT : /\ jst[a] = "alive" /\ jst[b] = "alive"
                        /\ joinable(a) /\ run[jt[a]] = "running" /\ ~joinable(b)
    /\ \A k \in Tasks : Resolutions(k) = 0

====
